---- MODULE Spec2Model ----
(***************************************************************************)
(* vss2git.py: conversion of a SourceSafe project to a git repository.     *)
(*                                                                         *)
(* Two state machines are modelled:                                        *)
(*   SpecParse  HistoryParser.ParseLabels, one step per line of the        *)
(*              history text;                                              *)
(*   Spec       the main program from the retrieval of the history to the  *)
(*              end of the replay loop, one step per block of the script   *)
(*              and one step per iteration of the replay loop.             *)
(*                                                                         *)
(* Texts (Python str) are sequences of tokens.  A token is one punctuation *)
(* character or a maximal run of word characters, so every operation the   *)
(* program applies character by character (re.sub, str.replace, strip) is  *)
(* applied token by token.                                                 *)
(***************************************************************************)
EXTENDS Integers, Sequences, FiniteSets, TLC

VARIABLES
    hp,         \* locals of HistoryParser.ParseLabels
    pc,         \* position of the main program
    args,       \* the parsed command line (numLabels is adjusted by the program)
    releases,   \* releases = hp.ParseLabels(hist)
    relIdx,     \* loop variable of the replay loop
    first,      \* "first" flag of the replay loop
    label,      \* normalized label of the current release (None before the loop)
    prevLabel,  \* normalized label of the previous iteration
    vss,        \* folders below vssPath: folder name -> tree
    gitTree,    \* working tree in gitPath
    index,      \* files staged in the git index
    commits,    \* history of the git repository, oldest first
    tags,       \* tag name -> position in commits
    exitCode,   \* exit status of the process (None while running)
    visited,    \* the releases the replay loop has taken up: <<relIdx, getRes>>,
                \* getRes -1 when mkdir raised before the retrieval
    faults,     \* git commands that have failed for a reason outside the model
    trace,      \* what the last iteration of the replay loop did
    dc          \* a pair of folders and the runs of dircmp and ProcessDiff on it

vars == <<hp, pc, args, releases, relIdx, first, label, prevLabel, vss, gitTree,
          index, commits, tags, exitCode, visited, faults, trace, dc>>

mainVars == <<pc, args, releases, relIdx, first, label, prevLabel, vss, gitTree,
              index, commits, tags, exitCode, visited, faults, trace>>

None == <<"None">>

(***************************************************************************)
(* Bounds                                                                  *)
(***************************************************************************)
MaxLines == 7       \* lines of history text read by ParseLabels
MaxReleases == 3    \* releases in the list handed to the main program
MaxFaults == 1      \* git commands of a run that fail for a reason outside the model

(***************************************************************************)
(* Texts                                                                   *)
(***************************************************************************)
RECURSIVE Sanitize(_)
\* .replace('"','').replace("'", '').replace('\\', '/')
Sanitize(text) ==
    IF text = <<>> THEN <<>>
    ELSE LET c == Head(text)
             rest == Sanitize(Tail(text))
         IN  IF c \in {"\"", "'"} THEN rest
             ELSE IF c = "\\" THEN <<"/">> \o rest
             ELSE <<c>> \o rest

RECURSIVE LStrip(_)
LStrip(text) ==
    IF text # <<>> /\ Head(text) = " " THEN LStrip(Tail(text)) ELSE text

RECURSIVE RStrip(_)
RStrip(text) ==
    IF text # <<>> /\ text[Len(text)] = " "
    THEN RStrip(SubSeq(text, 1, Len(text) - 1)) ELSE text

\* str.strip()
Strip(text) == RStrip(LStrip(text))

(***************************************************************************)
(* datetime.strptime(text, '%d/%m/%y %H:%M')                               *)
(***************************************************************************)
\* the digit runs that occur in the texts of the model, with their values
NumVal ==
    [tok \in {"00", "01", "02", "09", "10", "15", "24", "30", "31", "99", "2000"} |->
        CASE tok = "00" -> 0  [] tok = "01" -> 1  [] tok = "02" -> 2
          [] tok = "09" -> 9  [] tok = "10" -> 10 [] tok = "15" -> 15
          [] tok = "24" -> 24 [] tok = "30" -> 30 [] tok = "31" -> 31
          [] tok = "99" -> 99 [] tok = "2000" -> 2000]

IsNum(tok) == tok \in DOMAIN NumVal

IsLeap(y) == (y % 4 = 0 /\ y % 100 # 0) \/ y % 400 = 0

DaysIn(m, y) ==
    IF m = 2 THEN (IF IsLeap(y) THEN 29 ELSE 28)
    ELSE IF m \in {4, 6, 9, 11} THEN 30 ELSE 31

\* %y: 69..99 are 1969..1999, 00..68 are 2000..2068
FullYear(yy) == IF yy >= 69 THEN 1900 + yy ELSE 2000 + yy

\* the text has the shape d/m/y H:M and every field is in range
FormatOK(text) ==
    /\ Len(text) = 9
    /\ text[2] = "/" /\ text[4] = "/" /\ text[6] = " " /\ text[8] = ":"
    /\ \A i \in {1, 3, 5, 7, 9} : IsNum(text[i])
    /\ NumVal[text[5]] \in 0..99
    /\ NumVal[text[3]] \in 1..12
    /\ NumVal[text[1]] \in 1..DaysIn(NumVal[text[3]], FullYear(NumVal[text[5]]))
    /\ NumVal[text[7]] \in 0..23
    /\ NumVal[text[9]] \in 0..59

\* a datetime is <<year, month, day, hour, minute>>
DateTimeOf(text) ==
    <<FullYear(NumVal[text[5]]), NumVal[text[3]], NumVal[text[1]],
      NumVal[text[7]], NumVal[text[9]]>>

ValueError == <<>>

\* a parse that falls back to a default date instead of raising
strptime_default(text) ==
    IF FormatOK(text) THEN DateTimeOf(text) ELSE <<1970, 1, 1, 0, 0>>

\* the datetime, or ValueError when the text does not match the format
strptime(text) ==
    IF FormatOK(text) THEN DateTimeOf(text) ELSE ValueError

\* datetime comparison a < b
RECURSIVE SeqLess(_, _)
SeqLess(a, b) ==
    IF a = <<>> \/ b = <<>> THEN FALSE
    ELSE IF Head(a) # Head(b) THEN Head(a) < Head(b)
    ELSE SeqLess(Tail(a), Tail(b))

DateLE(a, b) == a = b \/ SeqLess(a, b)

(***************************************************************************)
(* Lines of the history text.  kind says which of the patterns of          *)
(* HistoryParser a line matches (they exclude one another: '*****',        *)
(* 'Label:', 'User:', 'Label comment'), g1..g3 are the groups the pattern  *)
(* captures, raw is the whole line.                                        *)
(***************************************************************************)
Line(kind, raw, g1, g2, g3) ==
    [kind |-> kind, raw |-> raw, g1 |-> g1, g2 |-> g2, g3 |-> g3]

BoundaryLine == Line("boundary", <<"*****">>, <<>>, <<>>, <<>>)

LabelLine(l) ==
    Line("label", <<"Label:", " ", "\"">> \o l \o <<"\"">>, l, <<>>, <<>>)

UserLine(u, d, t) ==
    Line("user", <<"User:", " ">> \o u \o <<" ", "Date:", " ">> \o d
                 \o <<" ", "Time:", " ">> \o t, u, d, t)

CommentLine(j, n, rest) ==
    Line("comment", <<"Label", " ", "comment:", " ">> \o j \o <<"-">> \o n \o rest,
         j, n, rest)

TextLine(raw) == Line("text", raw, <<>>, <<>>, <<>>)

Label1 == <<"R", "-", "1">>
Label2 == <<"R", "/", "2">>
Label3 == <<"R", "_", "2">>
Label4 == <<"R", ".", "3">>

Date1 == <<"01", "/", "02", "/", "24">>
Date2 == <<"15", "/", "02", "/", "99">>
DateBad == <<"31", "/", "02", "/", "24">>
Time1 == <<"10", ":", "00">>
Time2 == <<"09", ":", "30">>

Lines ==
    { BoundaryLine,
      LabelLine(Label1),
      LabelLine(Label2),
      UserLine(<<"alice", " ">>, Date1, Time1),
      UserLine(<<"bob">>, Date2, Time2),
      UserLine(<<"alice">>, DateBad, Time1),
      CommentLine(<<"JIRA">>, <<"15">>, <<" ", "fix", "\"", "a", "\\", "b", "\"">>),
      TextLine(<<"it", "'", "s", " ", "done">>) }

\* line.startswith('*****')
startswith(line) == line.kind = "boundary"
\* self.lblRE.match(line)
lblRE(line) == line.kind = "label"
\* self.tsRE.match(line)
tsRE(line) == line.kind = "user"
\* self.cmtRE.search(line)
cmtRE(line) == line.kind = "comment"

(***************************************************************************)
(* HistoryParser.ParseLabels                                               *)
(***************************************************************************)
\* a release is the list [label, d, comment, user]
Release(l, d, c, u) == <<l, d, c, u>>
RelLabel(rel) == rel[1]
RelTime(rel) == rel[2]
RelDesc(rel) == rel[3]
RelUser(rel) == rel[4]

ParseLabelsInit ==
    [pc |-> "scan", mode |-> 0, label |-> <<>>, lastLabel |-> <<>>,
     tsDate |-> <<>>, tsTime |-> <<>>, user |-> <<>>, comment |-> <<>>,
     releases |-> <<>>,
     lineNo |-> 0,          \* lines read so far
     boundaries |-> 0,      \* boundary lines read so far
     raised |-> FALSE,      \* an exception ended the scan
     dups |-> 0,            \* complete records not appended: same label as the last
     parsedFrom |-> <<>>]   \* for each release, the text its timestamp was parsed from

\* if label and tsDate and tsTime
Pending(s) == s.label # <<>> /\ s.tsDate # <<>> /\ s.tsTime # <<>>

Stamp(s) == s.tsDate \o <<" ">> \o s.tsTime

\* a release is appended for every complete record
IsNewLabel_always(lastLabel, lbl) == TRUE

\* if lastLabel != label
IsNewLabel(lastLabel, lbl) == lastLabel # lbl

\* the line raises: strptime fails at a record boundary
Raises(s, line) ==
    startswith(line) /\ Pending(s) /\ strptime(Stamp(s)) = ValueError

\* the body of "if line.startswith('*****')"
AtBoundary(s) ==
    LET emit == Pending(s) /\ IsNewLabel(s.lastLabel, s.label)
        s1 == IF emit
              THEN [s EXCEPT !.releases = Append(@, Release(s.label, strptime(Stamp(s)),
                                                            s.comment, s.user)),
                             !.lastLabel = s.label,
                             !.parsedFrom = Append(@, Stamp(s))]
              ELSE IF Pending(s) THEN [s EXCEPT !.dups = @ + 1]
              ELSE s
    IN  [s1 EXCEPT !.mode = 0, !.label = <<>>, !.tsDate = <<>>, !.tsTime = <<>>,
                   !.user = <<>>, !.comment = <<>>, !.boundaries = @ + 1]

\* the rest of the loop body, from "m = self.lblRE.match(line)"
AfterBoundary(s, line) ==
    IF lblRE(line) THEN [s EXCEPT !.mode = 1, !.label = line.g1]
    ELSE IF s.mode = 1 THEN
        LET s1 == IF tsRE(line)
                  THEN [s EXCEPT !.user = Strip(line.g1), !.tsDate = line.g2,
                                 !.tsTime = line.g3]
                  ELSE s
        IN  IF cmtRE(line)
            THEN [s1 EXCEPT !.comment = Sanitize(line.g1 \o <<"-">> \o line.g2
                                                 \o <<" ">> \o line.g3),
                            !.mode = 2]
            ELSE s1
    ELSE IF s.mode = 2 THEN
        [s EXCEPT !.comment = @ \o <<"\r", "\n">> \o Sanitize(line.raw)]
    ELSE s

\* one iteration of "for line in history.splitlines()" that does not raise
ScanLine(s, line) ==
    LET s1 == IF startswith(line) THEN AtBoundary(s) ELSE s
    IN  [AfterBoundary(s1, line) EXCEPT !.lineNo = @ + 1]

\* an exception handler that throws the partial result away
ExceptHandler_clear(s) ==
    [s EXCEPT !.pc = "returned", !.raised = TRUE, !.releases = <<>>,
              !.parsedFrom = <<>>]

\* except Exception as e: print(...); then return releases
ExceptHandler(s) == [s EXCEPT !.pc = "returned", !.raised = TRUE]

ParseLine ==
    /\ hp.pc = "scan"
    /\ hp.lineNo < MaxLines
    /\ \E line \in Lines :
          /\ ~Raises(hp, line)
          /\ hp' = ScanLine(hp, line)
    /\ UNCHANGED <<dc, mainVars>>

ParseRaise ==
    /\ hp.pc = "scan"
    /\ hp.lineNo < MaxLines
    /\ \E line \in Lines : Raises(hp, line)
    /\ hp' = ExceptHandler(hp)
    /\ UNCHANGED <<dc, mainVars>>

\* a return that first appends the record that is pending
Return_flush(s) ==
    IF Pending(s) /\ strptime(Stamp(s)) # ValueError
    THEN [s EXCEPT !.pc = "returned",
                   !.releases = Append(@, Release(s.label, strptime(Stamp(s)),
                                                  s.comment, s.user)),
                   !.parsedFrom = Append(@, Stamp(s))]
    ELSE [s EXCEPT !.pc = "returned"]

\* return releases, line 208
Return(s) == [s EXCEPT !.pc = "returned"]

\* the text has no more lines: return releases
ParseReturn ==
    /\ hp.pc = "scan"
    /\ hp' = Return(hp)
    /\ UNCHANGED <<dc, mainVars>>

MainIdle ==
    /\ pc = "idle"
    /\ args = None /\ releases = <<>> /\ relIdx = 0 /\ first = TRUE
    /\ label = None /\ prevLabel = None /\ vss = <<>> /\ gitTree = <<>>
    /\ index = <<>> /\ commits = <<>> /\ tags = <<>> /\ exitCode = None
    /\ visited = <<>> /\ faults = 0 /\ trace = None

\* no pair of folders is being compared
DiffIdle == [pc |-> "idle", left |-> <<>>, right |-> <<>>, runs |-> <<>>]

InitParse == hp = ParseLabelsInit /\ dc = DiffIdle /\ MainIdle

NextParse == ParseLine \/ ParseRaise \/ ParseReturn

SpecParse == InitParse /\ [][NextParse]_vars

(***************************************************************************)
(* File trees.  A tree maps the relative paths below a folder (sequences   *)
(* of names) to "dir" or, for a file, to its content.                      *)
(***************************************************************************)
EmptyTree == [p \in {} |-> "dir"]

IsPrefix(p, q) == Len(p) <= Len(q) /\ SubSeq(q, 1, Len(p)) = p

\* p and the paths below it
Under(t, p) == {q \in DOMAIN t : IsPrefix(p, q)}

is_dir(t, p) == p \in DOMAIN t /\ t[p] = "dir"

is_file(t, p) == p \in DOMAIN t /\ t[p] # "dir"

Files(t) == {p \in DOMAIN t : t[p] # "dir"}

\* os.listdir of the folder d of t
listdir(t, d) ==
    {q[Len(q)] : q \in {r \in DOMAIN t : Len(r) = Len(d) + 1 /\ IsPrefix(d, r)}}

Without(t, gone) == [p \in DOMAIN t \ gone |-> t[p]]

\* a folder with one entry
File(name, content) == [p \in {<<name>>} |-> content]

\* DEFAULT_EXCLUDED
DEFAULT_EXCLUDED == {"vssver2.scc", "mssccprj.scc"}

\* parser.add_argument('-e', dest='excluded', nargs='*',
\* default=DEFAULT_EXCLUDED, action='append'): every -e option appends the
\* list of its values, as one element, to a copy of the default list.
\* args.excluded is kept as the names that are elements of the list and the
\* lists that are elements of it.
Appended(given) ==
    [names |-> DEFAULT_EXCLUDED, lists |-> {given[i] : i \in DOMAIN given}]

\* the names n for which "n in excluded" holds, the test that copytree and
\* dircmp apply to every entry of a folder: a str equals no list
InList(excluded) == excluded.names

\* ignore_files(path, names): args.excluded, the same at every level
ignore_files(a) == InList(a.excluded)

\* the entries copytree visits: no component of the path is ignored
Visible(src, ignored) ==
    {p \in DOMAIN src : \A i \in 1..Len(p) : p[i] \notin ignored}

\* entries that cannot be copied: a folder onto a file, or a file onto a folder
CopyConflicts(src, dst, ignored) ==
    {p \in Visible(src, ignored) :
        \/ src[p] = "dir" /\ is_file(dst, p)
        \/ src[p] # "dir" /\ is_dir(dst, p)}

\* shutil.copytree(src, dst, ignore=ignore_files, dirs_exist_ok=True):
\* the tree in dst afterwards (what can be copied is copied, errors are
\* collected and raised at the end)
copytree(src, dst, ignored) ==
    LET bad == CopyConflicts(src, dst, ignored)
        copied == {p \in Visible(src, ignored) :
                      \A q \in bad : ~IsPrefix(q, p)}
    IN  [p \in DOMAIN dst \cup copied |-> IF p \in copied THEN src[p] ELSE dst[p]]

\* copytree raises shutil.Error
CopyRaises(src, dst, ignored) == CopyConflicts(src, dst, ignored) # {}

(***************************************************************************)
(* filecmp.dircmp and ProcessDiff                                          *)
(***************************************************************************)
\* the attributes of dircmp(left, right, ignore) that ProcessDiff reads, for
\* the folder rel of both trees
dircmp(left, right, ignored, rel) ==
    LET left_list == listdir(left, rel) \ ignored
        right_list == listdir(right, rel) \ ignored
        common == left_list \cap right_list
        common_files == {n \in common : is_file(left, Append(rel, n))
                                        /\ is_file(right, Append(rel, n))}
    IN  [left_only |-> left_list \ right_list,
         right_only |-> right_list \ left_list,
         common_dirs |-> {n \in common : is_dir(left, Append(rel, n))
                                         /\ is_dir(right, Append(rel, n))},
         diff_files |-> {n \in common_files :
                            left[Append(rel, n)] # right[Append(rel, n)]}]

\* a call of git.Add or git.Remove; mark is what ProcessDiff prints before the
\* path: '*' changed, '-' removed, '+' new
GitOp(op, path, recursive, mark) ==
    [op |-> op, path |-> path, recursive |-> recursive, mark |-> mark]

\* the calls of git.Add and git.Remove that ProcessDiff(diffs, relPath) makes
RECURSIVE ProcessDiff(_, _, _, _)
ProcessDiff(left, right, ignored, relPath) ==
    LET diffs == dircmp(left, right, ignored, relPath)
    IN  {GitOp("Add", Append(relPath, fn), FALSE, "*") : fn \in diffs.diff_files}
        \cup {GitOp("Remove", Append(relPath, fn), is_dir(left, Append(relPath, fn)),
                     "-") : fn \in diffs.left_only}
        \cup {GitOp("Add", Append(relPath, fn), FALSE, "+") : fn \in diffs.right_only}
        \cup UNION {ProcessDiff(left, right, ignored, Append(relPath, cd)) :
                       cd \in diffs.common_dirs}

\* rmFile.unlink(missing_ok=True): the files ProcessDiff deletes in diffs.left
Unlinked(ops) == {o.path : o \in {x \in ops : x.op = "Remove" /\ ~x.recursive}}

(***************************************************************************)
(* dircmp and ProcessDiff on their own: a pair of folders is compared and  *)
(* the delta processed, several times in a row                             *)
(***************************************************************************)
MaxRuns == 2

\* the folders of the model
DiffTrees ==
    { EmptyTree,
      File("a", "c1") @@ File("b", "c1") @@ File("vssver2.scc", "c1"),
      File("a", "c2") @@ File("vssver2.scc", "c2"),
      File("a", "c1") @@ File("d", "dir") @@ [p \in {<<"d", "b">>} |-> "c1"],
      File("a", "c1") @@ File("d", "c1"),
      File("d", "dir") @@ [p \in {<<"d", "a">>} |-> "c1"]
                       @@ [p \in {<<"d", "b">>} |-> "c2"],
      File("d", "dir") @@ [p \in {<<"d", "b">>} |-> "dir"]
                       @@ [p \in {<<"d", "b", "a">>} |-> "c1"],
      File("a", "dir") @@ [p \in {<<"a", "vssver2.scc">>} |-> "c1"] }

InitDiff ==
    /\ hp = ParseLabelsInit
    /\ MainIdle
    /\ \E left, right \in DiffTrees :
          dc = [pc |-> "diff", left |-> left, right |-> right, runs |-> <<>>]

\* lines 390-393 without the copy: diffs = dircmp(left, right, ignore=...) and
\* ProcessDiff(diffs, Path('')), which unlinks the removed files in left
DiffRun ==
    /\ dc.pc = "diff"
    /\ Len(dc.runs) < MaxRuns
    /\ LET ops == ProcessDiff(dc.left, dc.right, DEFAULT_EXCLUDED, <<>>)
       IN  dc' = [dc EXCEPT !.runs = Append(@, [left |-> dc.left, right |-> dc.right,
                                               ops |-> ops]),
                           !.left = Without(@, Unlinked(ops))]
    /\ UNCHANGED <<hp, mainVars>>

NextDiff == DiffRun

SpecDiff == InitDiff /\ [][NextDiff]_vars

(***************************************************************************)
(* GITRunner: the effect of the git commands on the working tree, the      *)
(* index, the history and the tags.  A repository is the record            *)
(* [tree, index, commits, tags].                                           *)
(***************************************************************************)
Repo(t, i, c, g) == [tree |-> t, index |-> i, commits |-> c, tags |-> g]

\* tracked paths that the pathspec p matches
Tracked(idx, p) == {q \in DOMAIN idx : IsPrefix(p, q)}

\* git add -- p succeeds: p is in the working tree or matches tracked files
AddMatches(r, p) == p \in DOMAIN r.tree \/ Tracked(r.index, p) # {}

\* git add -- p
Add(r, p) ==
    LET staged == {q \in Files(r.tree) : IsPrefix(p, q)}
        kept == DOMAIN r.index \ Tracked(r.index, p)
    IN  [r EXCEPT !.index = [q \in kept \cup staged |->
                                IF q \in staged THEN r.tree[q] ELSE r.index[q]]]

\* git add -A
AddAll(r) == [r EXCEPT !.index = [q \in Files(r.tree) |-> r.tree[q]]]

\* git rm [-r] -f -- p succeeds: p matches tracked files, a folder only with -r
RemoveMatches(r, p, recursive) ==
    /\ Tracked(r.index, p) # {}
    /\ recursive \/ Tracked(r.index, p) = {p}

\* git rm [-r] -f -- p: the files leave the index and the working tree, and
\* so do the folders this empties
Remove(r, p) ==
    LET gone == Tracked(r.index, p)
        t1 == Without(r.tree, gone \cap Files(r.tree))
        parents == {d \in DOMAIN t1 : t1[d] = "dir"
                                      /\ \E q \in gone : IsPrefix(d, q)}
        emptied == {d \in parents : \A q \in Under(t1, d) : q \in parents}
    IN  [r EXCEPT !.index = Without(r.index, gone),
                  !.tree = Without(t1, emptied)]

\* timestamp.isoformat(' '): the fields of YYYY-MM-DD HH:MM:SS
isoformat(timestamp) == timestamp \o <<0>>

\* a command that stamps the committer with the time of the conversion
CommitCmd_wallclock(user, comment, timestamp) ==
    [authorName |-> user, authorDate |-> isoformat(timestamp),
     committerName |-> user, committerDate |-> isoformat(<<2025, 3, 24, 0, 0>>),
     allowEmptyMessage |-> comment = <<>>, message |-> comment]

\* GITRunner.Commit: the environment and the command line of git commit
CommitCmd(user, comment, timestamp) ==
    [authorName |-> user, authorDate |-> isoformat(timestamp),
     committerName |-> user, committerDate |-> isoformat(timestamp),
     allowEmptyMessage |-> comment = <<>>, message |-> comment]

\* the tree of HEAD
HeadTree(r) == IF r.commits = <<>> THEN EmptyTree ELSE r.commits[Len(r.commits)].tree

\* git commit can succeed: something is staged
CanCommit(r) == r.index # HeadTree(r)

\* git commit: a new commit of the index, made for the release rel
Commit(r, cmd, rel) ==
    [r EXCEPT !.commits = Append(@, [cmd |-> cmd, tree |-> r.index, rel |-> rel])]

\* git tag -- name can succeed: HEAD exists and the tag does not
CanTag(r, name) == r.commits # <<>> /\ name \notin DOMAIN r.tags

\* git tag -- name
Tag(r, name) ==
    [r EXCEPT !.tags = [n \in DOMAIN r.tags \cup {name} |->
                           IF n = name THEN Len(r.commits) ELSE r.tags[n]]]

(***************************************************************************)
(* The main program                                                        *)
(***************************************************************************)
DEFAULT_NUM_LABELS == 10

EmptyMap == [n \in {} |-> 0]

\* the punctuation characters of the texts of the model; every other token is
\* a run of word characters (letters, digits, underscore)
NonWord == {"/", "\"", "'", "\\", " ", ":", ".", "-", "*", "\r", "\n"}

\* a substitution that also replaces the dot
Normalize_nodot(vssLabel) ==
    [i \in 1..Len(vssLabel) |->
        IF vssLabel[i] \in NonWord \ {"-"} THEN "_" ELSE vssLabel[i]]

\* re.sub(r'[^\w\d.-]', '_', vssLabel)
Normalize(vssLabel) ==
    [i \in 1..Len(vssLabel) |->
        IF vssLabel[i] \in NonWord \ {".", "-"} THEN "_" ELSE vssLabel[i]]

\* datetime.datetime.fromisoformat(text) for a date YYYY-MM-DD, or ValueError
fromisoformat(text) ==
    IF /\ Len(text) = 5 /\ text[2] = "-" /\ text[4] = "-"
       /\ \A i \in {1, 3, 5} : IsNum(text[i])
       /\ NumVal[text[3]] \in 1..12
       /\ NumVal[text[5]] \in 1..DaysIn(NumVal[text[3]], NumVal[text[1]])
    THEN <<NumVal[text[1]], NumVal[text[3]], NumVal[text[5]], 0, 0>>
    ELSE ValueError

\* the releases ParseLabels can hand to the main program in the model
Stamp1 == Date1 \o <<" ">> \o Time1
Stamp2 == Date2 \o <<" ">> \o Time2

ReleasePool ==
    { Release(Label1, DateTimeOf(Stamp1), <<>>, <<"alice">>),
      Release(Label2, DateTimeOf(Stamp2), <<"JIRA", "-", "15", " ", "fix">>, <<"bob">>),
      Release(Label3, DateTimeOf(Stamp1), <<"JIRA", "-", "15", " ", "fix">>, <<"alice">>),
      Release(Label4, DateTimeOf(Stamp2), <<>>, <<"bob">>) }

ReleaseLists ==
    {rels \in UNION {[1..n -> ReleasePool] : n \in 0..MaxReleases} :
        \A i \in 1..(Len(rels) - 1) : RelLabel(rels[i]) # RelLabel(rels[i + 1])}

\* the command lines of the model: -n and -d exclude one another
Args(n, d, l, e) ==
    [numLabels |-> n, fromDate |-> d, list |-> l, excluded |-> Appended(e)]

ArgChoices ==
    {Args(n, None, FALSE, <<>>) : n \in {1, DEFAULT_NUM_LABELS}}
    \cup {Args(DEFAULT_NUM_LABELS, <<"2000", "-", "01", "-", "01">>, FALSE, <<>>)}
    \cup {Args(DEFAULT_NUM_LABELS, None, TRUE, <<>>)}
    \cup {Args(2, None, FALSE, << <<"b">> >>)}

\* what ss get can leave in the folder of a label
SnapTrees ==
    { EmptyTree,
      File("a", "c1") @@ File("b", "c1") @@ File("vssver2.scc", "c1"),
      File("a", "c2") @@ File("vssver2.scc", "c2"),
      File("a", "c1") @@ File("d", "dir") @@ [p \in {<<"d", "b">>} |-> "c1"] }

\* what a failed ss get can leave in the folder: nothing, or part of the files
PartialTrees == {EmptyTree, File("a", "c1") @@ File("vssver2.scc", "c1")}

NoTrace ==
    [rel |-> 0, branch |-> "none", base |-> None, ops |-> {}, paths |-> {},
     cmd |-> None, committed |-> FALSE, tagged |-> FALSE]

Init ==
    /\ hp = ParseLabelsInit
    /\ dc = DiffIdle
    /\ pc = "start"
    /\ args \in ArgChoices
    /\ releases = <<>>
    /\ relIdx = 0
    /\ first = TRUE
    /\ label = None
    /\ prevLabel = None
    /\ vss = EmptyMap
    /\ gitTree = EmptyTree
    /\ index = EmptyTree
    /\ commits = <<>>
    /\ tags = EmptyMap
    /\ exitCode = None
    /\ visited = <<>>
    /\ faults = 0
    /\ trace = NoTrace

\* a program that reports every cause with the same status
Exit_one(code) == pc' = "exit" /\ exitCode' = 1

\* sys.exit(code)
Exit(code) == pc' = "exit" /\ exitCode' = code

\* lines 268-273: ss.GetHistory raises
HistoryFailed ==
    /\ pc = "start"
    /\ Exit(2)
    /\ UNCHANGED <<hp, dc, args, releases, relIdx, first, label, prevLabel, vss, gitTree,
                   index, commits, tags, visited, faults, trace>>

\* lines 268-288: the history is retrieved and parsed; -L lists the releases
\* and exits; numLabels is cut to the number of releases
HistoryParsed ==
    /\ pc = "start"
    /\ \E rels \in ReleaseLists :
          /\ releases' = rels
          /\ IF args.list
             THEN Exit(0) /\ args' = args
             ELSE /\ pc' = "folders"
                  /\ exitCode' = exitCode
                  /\ args' = [args EXCEPT !.numLabels =
                                 IF @ > Len(rels) THEN Len(rels) ELSE @]
    /\ UNCHANGED <<hp, dc, relIdx, first, label, prevLabel, vss, gitTree,
                   index, commits, tags, visited, faults, trace>>

\* lines 296-305: deleting the previous work folders raises
DeleteFailed ==
    /\ pc = "folders"
    /\ Exit(2)
    /\ UNCHANGED <<hp, dc, args, releases, relIdx, first, label, prevLabel, vss, gitTree,
                   index, commits, tags, visited, faults, trace>>

\* lines 296-321: the work folders are deleted and created; when the creation
\* raises the program prints a message and goes on without them
FoldersPrepared ==
    /\ pc = "folders"
    /\ \E created \in BOOLEAN : pc' = IF created THEN "init" ELSE "nofolders"
    /\ UNCHANGED <<hp, dc, args, releases, relIdx, first, label, prevLabel, vss, gitTree,
                   index, commits, tags, exitCode, visited, faults, trace>>

\* line 327 without gitPath: subprocess.run raises for the missing cwd
InitRaises ==
    /\ pc = "nofolders"
    /\ pc' = "raised" /\ exitCode' = 1
    /\ UNCHANGED <<hp, dc, args, releases, relIdx, first, label, prevLabel, vss, gitTree,
                   index, commits, tags, visited, faults, trace>>

\* lines 324-334: git init
GitInit ==
    /\ pc = "init"
    /\ \E res \in {0, 1} :
          IF res # 0 THEN Exit(3) ELSE pc' = "fromDate" /\ exitCode' = exitCode
    /\ UNCHANGED <<hp, dc, args, releases, relIdx, first, label, prevLabel, vss, gitTree,
                   index, commits, tags, visited, faults, trace>>

\* the releases at the head of the list that are newer than startDate
RECURSIVE relCount(_, _)
relCount(rels, startDate) ==
    IF rels = <<>> \/ DateLE(RelTime(Head(rels)), startDate) THEN 0
    ELSE 1 + relCount(Tail(rels), startDate)

\* lines 337-356: the start date, then the locals of the replay loop
StartDate ==
    /\ pc = "fromDate"
    /\ LET startDate == fromisoformat(args.fromDate)
           count == relCount(releases, startDate)
           n == IF args.fromDate = None \/ startDate = ValueError
                THEN args.numLabels ELSE count
       IN  IF args.fromDate # None /\ startDate # ValueError /\ count = 0
           THEN Exit(1) /\ UNCHANGED <<args, relIdx>>
           ELSE /\ args' = [args EXCEPT !.numLabels = n]
                /\ relIdx' = n
                /\ pc' = "loop"
                /\ exitCode' = exitCode
    /\ UNCHANGED <<hp, dc, releases, first, label, prevLabel, vss, gitTree,
                   index, commits, tags, visited, faults, trace>>

(***************************************************************************)
(* The replay loop, lines 357-399: one action per path through the body    *)
(***************************************************************************)
\* a loop that runs from the head of the list to its end
Current_forward == releases[args.numLabels + 1 - relIdx]

\* vssLabel, timestamp, desc, user = releases[relIdx-1]
Current == releases[relIdx]

InLoop == pc = "loop" /\ relIdx >= 1

\* lines 358-363, and the next value of the loop variable
LoopHead ==
    /\ prevLabel' = label
    /\ label' = Normalize(RelLabel(Current))
    /\ relIdx' = relIdx - 1

\* vssLblPath.mkdir() raises FileExistsError
MkdirRaises(folders, name) == name \in DOMAIN folders

\* a loop that takes a failed retrieval for a good one
Materialized_always(getRes) == TRUE

\* if getRes == 0
Materialized(getRes) == getRes = 0

\* a loop that takes every retrieved release for the first one
ClearFirst_never == first' = first

\* first = False, line 374
ClearFirst == first' = FALSE

\* one call of git.Add or git.Remove by ProcessDiff; the calls in failing
\* return non-zero without a change
ApplyOp(r, o, failing) ==
    IF o \in failing THEN r
    ELSE IF o.op = "Add" THEN (IF AddMatches(r, o.path) THEN Add(r, o.path) ELSE r)
    ELSE IF RemoveMatches(r, o.path, o.recursive) THEN Remove(r, o.path) ELSE r

RECURSIVE ApplyOps(_, _, _)
ApplyOps(r, ops, failing) ==
    IF ops = {} THEN r
    ELSE LET o == CHOOSE x \in ops : TRUE
         IN  ApplyOps(ApplyOp(r, o, failing), ops \ {o}, failing)

\* lines 386-388 and 395-397: git.Commit(user, desc, timestamp), git.Tag(label)
CommitAndTag(r, rel, name, commitOk, tagOk) ==
    LET cmd == CommitCmd(RelUser(Current), RelDesc(Current), RelTime(Current))
        r1 == IF commitOk /\ CanCommit(r) THEN Commit(r, cmd, rel) ELSE r
    IN  IF tagOk /\ CanTag(r1, name) THEN Tag(r1, name) ELSE r1

SetRepo(r) ==
    /\ gitTree' = r.tree
    /\ index' = r.index
    /\ commits' = r.commits
    /\ tags' = r.tags

Traced(branch, base, ops, paths, cmd, r) ==
    trace' = [rel |-> relIdx, branch |-> branch, base |-> base, ops |-> ops,
              paths |-> paths, cmd |-> cmd,
              committed |-> Len(r.commits) > Len(commits),
              tagged |-> DOMAIN r.tags # DOMAIN tags]

\* vssLblPath.mkdir() raises: the folder of the label exists
ReleaseRaises ==
    /\ InLoop
    /\ MkdirRaises(vss, Normalize(RelLabel(Current)))
    /\ LoopHead
    /\ pc' = "raised" /\ exitCode' = 1
    /\ visited' = Append(visited, <<relIdx, -1>>)
    /\ trace' = [NoTrace EXCEPT !.rel = relIdx, !.branch = "raised"]
    /\ UNCHANGED <<hp, dc, args, releases, first, vss, gitTree, index, commits, tags,
                   faults>>

\* ss.GetAtLabel returns non-zero: else branch, line 399
ReleaseFailed ==
    /\ InLoop
    /\ ~MkdirRaises(vss, Normalize(RelLabel(Current)))
    /\ LoopHead
    /\ \E getRes \in {0, 1}, left \in PartialTrees :
          /\ ~Materialized(getRes)
          /\ vss' = (label' :> left) @@ vss
          /\ visited' = Append(visited, <<relIdx, getRes>>)
    /\ trace' = [NoTrace EXCEPT !.rel = relIdx, !.branch = "failed"]
    /\ UNCHANGED <<hp, dc, pc, args, releases, first, gitTree, index, commits, tags,
                   exitCode, faults>>

\* the number of the git commands among the given outcomes that fail for a
\* reason outside the model
Injected(outcomes) == Cardinality({i \in DOMAIN outcomes : ~outcomes[i]})

\* lines 375-388: the first release that is retrieved
FirstRelease ==
    /\ InLoop
    /\ ~MkdirRaises(vss, Normalize(RelLabel(Current)))
    /\ first
    /\ LoopHead
    /\ \E getRes \in {0, 1}, snap \in SnapTrees, addOk, commitOk, tagOk \in BOOLEAN :
          /\ Materialized(getRes)
          /\ vss' = (label' :> snap) @@ vss
          /\ visited' = Append(visited, <<relIdx, getRes>>)
          /\ LET r0 == Repo(copytree(snap, gitTree, ignore_files(args)), index, commits, tags)
                 r1 == AddAll(r0)
                 r2 == CommitAndTag(r1, relIdx, label', commitOk, TRUE)
                 r3 == IF addOk THEN CommitAndTag(r1, relIdx, label', commitOk, tagOk)
                       ELSE r0
             IN  /\ ~addOk => commitOk /\ tagOk
                 /\ ~commitOk => CanCommit(r1)
                 /\ ~tagOk => r2 # r3
                 /\ faults' = faults + Injected(<<addOk, commitOk, tagOk>>)
                 /\ faults' <= MaxFaults
                 /\ SetRepo(r3)
                 /\ Traced("first", None,
                           {"AddAll"} \cup (IF addOk THEN {"Commit", "Tag"} ELSE {}),
                           {},
                           IF addOk THEN CommitCmd(RelUser(Current), RelDesc(Current),
                                                   RelTime(Current))
                           ELSE None, r3)
    /\ ClearFirst
    /\ UNCHANGED <<hp, dc, pc, args, releases, exitCode>>

\* lines 389-397: a later release that is retrieved; copytree may raise
NextRelease ==
    /\ InLoop
    /\ ~MkdirRaises(vss, Normalize(RelLabel(Current)))
    /\ ~first
    /\ LoopHead
    /\ \E getRes \in {0, 1}, snap \in SnapTrees, commitOk, tagOk \in BOOLEAN :
          /\ Materialized(getRes)
          /\ visited' = Append(visited, <<relIdx, getRes>>)
          /\ LET base == label   \* prevLabel as assigned at line 358 (LoopHead)
                 ops == ProcessDiff(vss[base], snap, InList(args.excluded), <<>>)
                 r0 == Repo(copytree(snap, gitTree, ignore_files(args)), index, commits, tags)
             IN  IF CopyRaises(snap, gitTree, ignore_files(args))
                 THEN /\ SetRepo(r0)
                      /\ vss' = (label' :> snap) @@ vss
                      /\ pc' = "raised" /\ exitCode' = 1
                      /\ faults' = faults
                      /\ trace' = [NoTrace EXCEPT !.rel = relIdx, !.branch = "raised",
                                                  !.base = base]
                 ELSE \E failing \in SUBSET {o \in ops : ApplyOp(r0, o, {}) # r0} :
                      LET r1 == ApplyOps(r0, ops, failing)
                          r2 == CommitAndTag(r1, relIdx, label', commitOk, TRUE)
                          r3 == CommitAndTag(r1, relIdx, label', commitOk, tagOk)
                      IN  /\ ~commitOk => CanCommit(r1)
                          /\ ~tagOk => r2 # r3
                          /\ faults' = faults + Cardinality(failing)
                                              + Injected(<<commitOk, tagOk>>)
                          /\ faults' <= MaxFaults
                          /\ SetRepo(r3)
                          /\ vss' = (label' :> snap) @@
                                    [vss EXCEPT ![base] = Without(@, Unlinked(ops))]
                          /\ pc' = pc /\ exitCode' = exitCode
                          /\ Traced("steady", base,
                                    {o.op : o \in ops} \cup {"Commit", "Tag"},
                                    {o.path : o \in ops},
                                    CommitCmd(RelUser(Current), RelDesc(Current),
                                              RelTime(Current)), r3)
    /\ UNCHANGED <<hp, dc, args, releases, first>>

\* the loop is exhausted; lines 402-404 push when asked to
Done ==
    /\ pc = "loop" /\ relIdx < 1
    /\ Exit(0)
    /\ UNCHANGED <<hp, dc, args, releases, relIdx, first, label, prevLabel, vss, gitTree,
                   index, commits, tags, visited, faults, trace>>

Next ==
    \/ HistoryFailed \/ HistoryParsed \/ DeleteFailed \/ FoldersPrepared
    \/ InitRaises \/ GitInit \/ StartDate
    \/ ReleaseRaises \/ ReleaseFailed \/ FirstRelease \/ NextRelease \/ Done

Spec == Init /\ [][Next]_vars

(***************************************************************************)
(* Claims about the replay loop (checked under Spec)                       *)
(***************************************************************************)
\* the release the last iteration worked on, and its folder and tag name
TraceRelease == releases[trace.rel]
TraceName == Normalize(RelLabel(TraceRelease))

\* the iterations before the last one
Earlier == SubSeq(visited, 1, Len(visited) - 1)

\* the folder of the last release whose retrieval returned 0, None if there is none
RECURSIVE LastGood(_)
LastGood(seen) ==
    IF seen = <<>> THEN None
    ELSE IF seen[Len(seen)][2] = 0
         THEN Normalize(RelLabel(releases[seen[Len(seen)][1]]))
         ELSE LastGood(SubSeq(seen, 1, Len(seen) - 1))

\* C1: in the steady-state branch the delta is computed against the snapshot
\* of the most recent earlier release whose retrieval returned 0, also when
\* the release right before it failed.
C1_DiffAgainstLastGood ==
    trace.branch = "steady" => trace.base = LastGood(Earlier)

\* C2: at the end of each iteration either a commit for the release exists
\* and the tag of its normalized label points to it, or the iteration made
\* neither a commit nor a tag; no tag points to the commit of another release.
C2_AtomicPerRelease ==
    /\ trace.branch \in {"first", "steady", "failed"} =>
          \/ /\ trace.committed
             /\ TraceName \in DOMAIN tags
             /\ commits[tags[TraceName]].rel = trace.rel
          \/ ~trace.committed /\ ~trace.tagged
    /\ \A n \in DOMAIN tags :
          Normalize(RelLabel(releases[commits[tags[n]].rel])) = n

\* C3: after a successful git init no error of a release aborts the run: the
\* loop takes up every selected release once, newest index last, and the run
\* ends with status 0.
C3_RunReachesDone ==
    /\ pc = "raised" => visited = <<>>
    /\ (pc = "exit" /\ exitCode = 0 /\ ~args.list) =>
          /\ Len(visited) = args.numLabels
          /\ \A i \in 1..Len(visited) : visited[i][1] = args.numLabels + 1 - i

\* C4: an iteration whose retrieval returns non-zero issues no git command,
\* leaves the working tree, the index, the history and the tags as they were,
\* and the loop goes on with the next release.
C4_FailedChangesNothing ==
    [][ (/\ Len(visited') > Len(visited)
         /\ visited'[Len(visited')][2] > 0) =>
            /\ gitTree' = gitTree /\ index' = index
            /\ commits' = commits /\ tags' = tags
            /\ trace'.ops = {} /\ faults' = faults
            /\ pc' = "loop" /\ relIdx' = relIdx - 1 ]_vars

\* a retrieval failed after a commit was made, with releases left to replay
C4_Witness ==
    /\ trace.branch = "failed" /\ visited[Len(visited)][2] > 0
    /\ commits # <<>> /\ relIdx >= 1

\* C5: after an iteration that creates a commit, the files of the working
\* tree and the files in the index are exactly the files of the snapshot of
\* that release that are not excluded (no git command failing for a reason
\* outside the model).
C5_TreeEqualsSnapshot ==
    (trace.committed /\ faults = 0) =>
        LET wanted == Files(vss[label]) \cap Visible(vss[label], DEFAULT_EXCLUDED)
        IN  Files(gitTree) = wanted /\ DOMAIN index = wanted

CommitDate(c) == c.cmd.committerDate

\* the releases the loop replays are listed newest first
NewestFirst ==
    \A i \in 1..(args.numLabels - 1) :
        i < Len(releases) => DateLE(RelTime(releases[i + 1]), RelTime(releases[i]))

CommitsInReplayOrder ==
    /\ \A i \in 1..Len(commits) :
          /\ commits[i].rel \in 1..args.numLabels
          /\ commits[i].cmd.message = RelDesc(releases[commits[i].rel])
    /\ \A i, j \in 1..Len(commits) : i < j => commits[i].rel > commits[j].rel

\* C6 as stated: the commits follow the selected releases oldest first and
\* their timestamps never decrease.
C6_OrderAndTimestamps ==
    /\ CommitsInReplayOrder
    /\ \A i, j \in 1..Len(commits) :
          i < j => DateLE(CommitDate(commits[i]), CommitDate(commits[j]))

\* C6 amended: the commits follow the selected releases in the reverse of the
\* order of the list (each release at most once); their timestamps never
\* decrease when the selected releases are listed newest first.
C6_ReplayOrder ==
    /\ CommitsInReplayOrder
    /\ NewestFirst =>
          \A i, j \in 1..Len(commits) :
              i < j => DateLE(CommitDate(commits[i]), CommitDate(commits[j]))

\* two commits with different timestamps were made from a list that is newest
\* first, and a release was skipped
C6_Witness ==
    /\ pc = "loop" /\ NewestFirst
    /\ Len(commits) >= 2 /\ Len(commits) < Len(visited)
    /\ CommitDate(commits[1]) # CommitDate(commits[2])

\* what C7 asks of a commit command issued for the release rel
CarriesRelease(cmd, rel) ==
    /\ cmd.authorName = RelUser(rel) /\ cmd.committerName = RelUser(rel)
    /\ cmd.authorDate = isoformat(RelTime(rel))
    /\ cmd.committerDate = isoformat(RelTime(rel))
    /\ cmd.message = RelDesc(rel)
    /\ cmd.allowEmptyMessage <=> (RelDesc(rel) = <<>>)

\* C7: every commit command of the replay loop names the author of the
\* release as author and committer, gives its timestamp as both dates and its
\* message as message, and allows an empty message exactly when the message
\* is empty.
C7_CommitCarriesRelease ==
    /\ \A i \in 1..Len(commits) :
          CarriesRelease(commits[i].cmd, releases[commits[i].rel])
    /\ "Commit" \in trace.ops => CarriesRelease(trace.cmd, TraceRelease)

\* a commit with an empty message and one with a message were made
C7_Witness ==
    /\ \E i \in 1..Len(commits) : commits[i].cmd.allowEmptyMessage
    /\ \E i \in 1..Len(commits) : ~commits[i].cmd.allowEmptyMessage

\* the names the command line asks to exclude: the defaults and the values
\* of the -e options
ExclusionSet(a) ==
    a.excluded.names
    \cup UNION {{l[i] : i \in DOMAIN l} : l \in a.excluded.lists}

\* the name n is a component of the path p
Mentions(p, n) == \E i \in 1..Len(p) : p[i] = n

\* C11: no name of the exclusion set is a component of a path that
\* ProcessDiff hands to git add or git rm, of a path of the working tree or
\* of a path of the index, in the first-release and the steady-state branch.
C11_ExcludedNeverSurface ==
    \A n \in ExclusionSet(args) :
        /\ \A p \in trace.paths : ~Mentions(p, n)
        /\ \A p \in DOMAIN gitTree : ~Mentions(p, n)
        /\ \A p \in DOMAIN index : ~Mentions(p, n)

\* the folders of the releases whose retrieval returned 0
GoodFolders ==
    {Normalize(RelLabel(releases[visited[i][1]])) :
        i \in {j \in DOMAIN visited : visited[j][2] = 0}}

\* C13: no step of the run deletes the folder of a materialized snapshot or
\* changes a path in it: the folder stays as the retrieval left it.
C13_SnapshotsKept ==
    [][ \A n \in GoodFolders : n \in DOMAIN vss' /\ vss'[n] = vss[n] ]_vars

\* C15: an error of the setup phase is fatal: when deleting a previous work
\* folder or creating the work folders fails, the program ends at once with a
\* non-zero status, and the repository is not initialized, no snapshot is
\* retrieved and no commit is made.
C15_SetupErrorsFatal ==
    [][ (pc = "folders" /\ pc' # "init") =>
            /\ pc' = "exit" /\ exitCode' # 0
            /\ visited' = <<>> /\ vss' = EmptyMap
            /\ commits' = <<>> /\ tags' = EmptyMap ]_vars

\* the start date is given and the first release of the list, the newest one,
\* is not later than it
NoNewerRelease ==
    /\ args.fromDate # None
    /\ fromisoformat(args.fromDate) # ValueError
    /\ \/ releases = <<>>
       \/ DateLE(RelTime(releases[1]), fromisoformat(args.fromDate))

\* C16: the program exits with 2 when the history cannot be retrieved, with 1
\* when a start date is given and no release is newer, with 3 when git init
\* fails and with 0 when the loop is through; in the three failure cases no
\* release was replayed; a git command of the loop that returns non-zero does
\* not end the run.
C16_ExitStatus ==
    [][ /\ (pc = "start" /\ pc' = "exit") =>
              (exitCode' = 2 \/ (args.list /\ exitCode' = 0))
        /\ (pc = "init" /\ pc' = "exit") => exitCode' = 3
        /\ pc = "fromDate" =>
              IF NoNewerRelease THEN pc' = "exit" /\ exitCode' = 1
              ELSE pc' = "loop" /\ exitCode' = None
        /\ (pc = "loop" /\ pc' = "exit") => (exitCode' = 0 /\ relIdx < 1)
        /\ (pc' = "exit" /\ exitCode' \in {1, 2, 3}) =>
              /\ visited' = <<>> /\ vss' = EmptyMap /\ gitTree' = EmptyTree
              /\ index' = EmptyTree /\ commits' = <<>> /\ tags' = EmptyMap
        /\ faults' > faults => (pc' = "loop" /\ exitCode' = None) ]_vars

\* the run ended with status 1: git init succeeded, a start date was given
\* and the newest release is not later than it
C16_Witness ==
    /\ pc = "exit" /\ exitCode = 1
    /\ args.fromDate # None /\ releases # <<>>

\* a character the normalized label may hold: a word character, dot or dash
Allowed(ch) == ch \notin NonWord \/ ch \in {".", "-"}

\* C17: the label of an iteration is the label of its release with every
\* character that is not a word character, dot or dash replaced by '_' and
\* every other character kept, so it has the same length and only allowed
\* characters, and normalizing it again changes nothing; the folder of the
\* snapshot and the tag of the iteration bear this name.
C17_NormalizedLabels ==
    /\ trace.branch # "none" =>
          LET raw == RelLabel(TraceRelease)
          IN  /\ Len(label) = Len(raw)
              /\ \A i \in 1..Len(raw) :
                    /\ label[i] = IF Allowed(raw[i]) THEN raw[i] ELSE "_"
                    /\ Allowed(label[i])
              /\ Normalize(label) = label
              /\ label \in DOMAIN vss
              /\ trace.tagged => (label \in DOMAIN tags /\ tags[label] = Len(commits))
    /\ \A n \in DOMAIN vss \cup DOMAIN tags : \A i \in 1..Len(n) : Allowed(n[i])

\* a release whose label holds a character that is replaced, and one whose
\* label holds a dot or a dash, were replayed and tagged
C17_Witness ==
    /\ trace.tagged /\ label # RelLabel(TraceRelease)
    /\ \E n \in DOMAIN tags : \E i \in 1..Len(n) : n[i] \in {".", "-"}

\* the iterations so far whose retrieval returned 0
Retrieved(seen) == {i \in DOMAIN seen : seen[i][2] = 0}

\* C18: the branch that copies the whole snapshot and stages all paths is
\* taken by the first release whose retrieval returns 0 and by no other one:
\* every release before it failed, and every release retrieved after it takes
\* the steady-state branch, which never stages all paths, whatever the git
\* commands of the first release returned.
C18_FullAddOnce ==
    /\ first <=> Retrieved(visited) = {}
    /\ trace.branch = "first" <=>
          (Retrieved(visited) = {Len(visited)} /\ visited # <<>>)
    /\ trace.branch = "steady" =>
          (Len(visited) \in Retrieved(visited) /\ Retrieved(Earlier) # {})
    /\ (visited # <<>> /\ Len(visited) \in Retrieved(visited)
                       /\ Retrieved(Earlier) # {}) =>
          trace.branch \in {"steady", "raised"}
    /\ "AddAll" \in trace.ops <=> trace.branch = "first"

\* a release took the steady-state branch after a first release for which
\* git commit made no commit and that followed a release that could not be
\* retrieved
C18_Witness ==
    /\ trace.branch = "steady" /\ Len(visited) = 3
    /\ Retrieved(visited) = {2, 3}
    /\ \A i \in 1..Len(commits) : commits[i].rel # visited[2][1]

(***************************************************************************)
(* Claims about ParseLabels (checked under SpecParse)                      *)
(***************************************************************************)
\* C8: the list ParseLabels builds never holds two adjacent releases with the
\* same label.
C8_NoAdjacentDuplicates ==
    \A i \in 1..(Len(hp.releases) - 1) :
        RelLabel(hp.releases[i]) # RelLabel(hp.releases[i + 1])

\* a complete record was dropped for repeating the last appended label, and
\* the list is not empty
C8_Witness == hp.dups > 0 /\ Len(hp.releases) >= 1

\* C9: every release in the list has a non-empty label and the timestamp that
\* the fixed format yields for its captured date and time; a record whose date
\* and time do not parse is not in the list.
C9_ParsedTimestamps ==
    /\ Len(hp.parsedFrom) = Len(hp.releases)
    /\ \A i \in 1..Len(hp.releases) :
          /\ RelLabel(hp.releases[i]) # <<>>
          /\ FormatOK(hp.parsedFrom[i])
          /\ RelTime(hp.releases[i]) = DateTimeOf(hp.parsedFrom[i])

\* a record failed to parse after another one was appended
C9_Witness == hp.raised /\ Len(hp.releases) >= 1

\* C10: an error while scanning a line ends the scan at that line and
\* ParseLabels returns the releases appended so far, unchanged; nothing is
\* appended after the return.
C10_ExceptionReturnsPartial ==
    [][ /\ (hp'.raised /\ ~hp.raised) =>
              (hp'.pc = "returned" /\ hp'.releases = hp.releases)
        /\ hp.pc = "returned" => hp'.releases = hp.releases ]_vars

\* the scan ended by an exception with releases appended and lines left
C10_Witness ==
    hp.raised /\ hp.pc = "returned" /\ hp.releases # <<>> /\ hp.lineNo < MaxLines

\* a step of the scan that reads a line that is not a record boundary
ReadsInnerLine ==
    /\ hp.pc = "scan"
    /\ hp'.lineNo = hp.lineNo + 1
    /\ hp'.boundaries = hp.boundaries

\* C19: when the parser is in the comment of a record (mode 2), every line
\* before the next record boundary is appended to the message, sanitized and
\* after a line break, and changes neither the label nor the user, the date
\* and the time of the record, also when it has the form of a label line.
C19_CommentLinesAppended ==
    [][ (hp.mode = 2 /\ ReadsInnerLine) =>
            /\ hp'.label = hp.label /\ hp'.user = hp.user
            /\ hp'.tsDate = hp.tsDate /\ hp'.tsTime = hp.tsTime
            /\ \E line \in Lines :
                  hp'.comment = hp.comment \o <<"\r", "\n">> \o Sanitize(line.raw) ]_vars

\* C20: a release is appended only by a step that reads a record boundary,
\* so the list never holds more releases than boundaries were read, and the
\* return appends nothing: a complete record that no boundary follows is not
\* in the list that ParseLabels returns.
C20_EmittedAtBoundaryOnly ==
    [][ /\ Len(hp'.releases) <= hp'.boundaries
        /\ hp'.releases # hp.releases =>
              /\ hp'.boundaries = hp.boundaries + 1
              /\ hp'.releases = Append(hp.releases, hp'.releases[Len(hp'.releases)])
        /\ hp'.pc = "returned" => hp'.releases = hp.releases ]_vars

\* ParseLabels returned without an error while a complete record with a new
\* label was pending, after a release had been appended
C20_Witness ==
    /\ hp.pc = "returned" /\ ~hp.raised
    /\ Pending(hp) /\ strptime(Stamp(hp)) # ValueError
    /\ hp.releases # <<>> /\ hp.label # hp.lastLabel

(***************************************************************************)
(* Claims about dircmp and ProcessDiff (checked under SpecDiff)            *)
(***************************************************************************)
\* the paths of a delta that ProcessDiff reports with the given mark
Marked(ops, mark) == {o.path : o \in {x \in ops : x.mark = mark}}

\* the relative paths that differ between two folders: below folders that
\* both have, a path that only one has, a file with another content, or a
\* file on one side and a folder on the other
Differing(left, right, ignored) ==
    {p \in Visible(left, ignored) \cup Visible(right, ignored) :
        /\ \A k \in 1..(Len(p) - 1) :
              is_dir(left, SubSeq(p, 1, k)) /\ is_dir(right, SubSeq(p, 1, k))
        /\ \/ p \notin DOMAIN left
           \/ p \notin DOMAIN right
           \/ left[p] # right[p]}

\* C12: in every delta no path is reported as more than one of added,
\* removed and modified, and the paths reported over all levels are exactly
\* the paths that differ between the two folders, a path that is a file in
\* one and a folder in the other included.
C12_DeltaCoversDifferences ==
    \A i \in 1..Len(dc.runs) :
        LET run == dc.runs[i]
            added == Marked(run.ops, "+")
            removed == Marked(run.ops, "-")
            modified == Marked(run.ops, "*")
        IN  /\ added \cap removed = {}
            /\ added \cap modified = {}
            /\ removed \cap modified = {}
            /\ added \cup removed \cup modified
                  = Differing(run.left, run.right, DEFAULT_EXCLUDED)

\* C14: when the delta of the same pair of folders is computed and processed
\* twice in a row, both runs report the same added, removed and modified
\* paths.
C14_DiffIdempotent ==
    \A i \in 1..(Len(dc.runs) - 1) :
        /\ Marked(dc.runs[i].ops, "+") = Marked(dc.runs[i + 1].ops, "+")
        /\ Marked(dc.runs[i].ops, "-") = Marked(dc.runs[i + 1].ops, "-")
        /\ Marked(dc.runs[i].ops, "*") = Marked(dc.runs[i + 1].ops, "*")

====
